---- MODULE Spec2Model ----
(***************************************************************************)
(* Model of day02/hebrew_date.py: gregorian_to_hebrew and its three        *)
(* callers (_cli, interactive_input, run_gui.on_convert).                  *)
(*                                                                         *)
(* The arithmetic is delegated by the program to the convertdate package.  *)
(* Its two entry points used here (julianday.from_gregorian and            *)
(* hebrew.from_jd) are modelled as that package computes them.  The        *)
(* package works on Julian days of the form n + 0.5; the model holds such  *)
(* a value as the integer n.                                               *)
(***************************************************************************)
EXTENDS Integers, Sequences, FiniteSets, TLC

(***************************************************************************)
(* Python primitives                                                       *)
(***************************************************************************)

\* math.trunc(a / b) for b > 0: rounds toward zero.
Trunc(a, b) == IF a >= 0 THEN a \div b ELSE -((-a) \div b)

\* <<x \div b, x % b>> for x = n * a, with n >= 0, a >= 0, b > 0, computed by
\* doubling so that no intermediate value leaves 32 bits (the program's own
\* integers and floats hold n * a exactly).
RECURSIVE MulDivMod(_, _, _)
MulDivMod(n, a, b) ==
    IF a = 0 THEN <<0, 0>>
    ELSE LET h  == MulDivMod(n, a \div 2, b)
             q2 == 2 * h[1] + ((2 * h[2]) \div b)
             r2 == (2 * h[2]) % b
         IN  IF a % 2 = 1
             THEN <<q2 + (n \div b) + ((r2 + (n % b)) \div b), (r2 + (n % b)) % b>>
             ELSE <<q2, r2>>

\* list[k] with Python's negative indices; <<>> stands for IndexError.
PyIndex(list, k) ==
    IF k >= 0 /\ k < Len(list) THEN <<list[k + 1]>>
    ELSE IF k < 0 /\ k >= -Len(list) THEN <<list[Len(list) + k + 1]>>
    ELSE <<>>

DigitChars == <<"0", "1", "2", "3", "4", "5", "6", "7", "8", "9">>

RECURSIVE NatToStr(_)
NatToStr(n) ==
    IF n < 10 THEN DigitChars[n + 1]
    ELSE NatToStr(n \div 10) \o DigitChars[(n % 10) + 1]

\* str(int): the decimal digits, with a leading minus sign below zero.
IntToStr(n) == IF n < 0 THEN "-" \o NatToStr(-n) ELSE NatToStr(n)

\* Typed text is held as its sequence of characters.
IsSpace(ch) == ch \in {" ", "\t", "\n"}

RECURSIVE lstrip(_)
lstrip(t) == IF t # <<>> /\ IsSpace(Head(t)) THEN lstrip(Tail(t)) ELSE t

RECURSIVE rstrip(_)
rstrip(t) ==
    IF t # <<>> /\ IsSpace(t[Len(t)]) THEN rstrip(SubSeq(t, 1, Len(t) - 1)) ELSE t

\* str.strip()
strip(t) == rstrip(lstrip(t))

IsDigit(ch) == \E k \in 1..10 : DigitChars[k] = ch

DigitOf(ch) == (CHOOSE k \in 1..10 : DigitChars[k] = ch) - 1

RECURSIVE DigitsValue(_, _)
DigitsValue(t, acc) ==
    IF t = <<>> THEN acc ELSE DigitsValue(Tail(t), 10 * acc + DigitOf(Head(t)))

\* int(text): <<n>>, or <<>> when it raises ValueError.  Surrounding
\* whitespace and one leading sign are accepted; at least one digit is needed.
PyInt(text) ==
    LET t      == strip(text)
        signed == t # <<>> /\ Head(t) \in {"+", "-"}
        digits == IF signed THEN Tail(t) ELSE t
    IN  IF digits = <<>> \/ \E k \in 1..Len(digits) : ~IsDigit(digits[k])
        THEN <<>>
        ELSE IF signed /\ Head(t) = "-" THEN <<0 - DigitsValue(digits, 0)>>
        ELSE <<DigitsValue(digits, 0)>>

(***************************************************************************)
(* convertdate.gregorian / convertdate.julianday                           *)
(***************************************************************************)

GREGORIAN_EPOCH == 1721425      \* 1721425.5

HAVE_30_DAYS == {4, 6, 9, 11}

isleap(year) == year % 4 = 0 /\ (year % 100 # 0 \/ year % 400 = 0)

\* gregorian.legal_date: only the day is checked against the month's length;
\* a month outside 1..12 is taken to have 31 days.
legal_date(year, month, day) ==
    LET daysinmonth == IF month = 2 THEN (IF isleap(year) THEN 29 ELSE 28)
                       ELSE IF month \in HAVE_30_DAYS THEN 30 ELSE 31
    IN  0 < day /\ day <= daysinmonth

\* gregorian.to_jd, for a date legal_date accepts.
gregorian_to_jd(year, month, day) ==
    LET leap_adj == IF month <= 2 THEN 0 ELSE IF isleap(year) THEN -1 ELSE -2
    IN  GREGORIAN_EPOCH - 1 + 365 * (year - 1)
        + ((year - 1) \div 4) - ((year - 1) \div 100) + ((year - 1) \div 400)
        + (((367 * month) - 362) \div 12) + leap_adj + day

\* julianday.from_gregorian: <<jd>>, or <<>> when legal_date raises ValueError.
from_gregorian(year, month, day) ==
    IF legal_date(year, month, day) THEN <<gregorian_to_jd(year, month, day)>>
    ELSE <<>>

(***************************************************************************)
(* convertdate.hebrew                                                      *)
(***************************************************************************)

HEBREW_EPOCH == 347995          \* 347995.5

leap(year) == ((year * 7) + 1) % 19 < 7

year_months(year) == IF leap(year) THEN 13 ELSE 12

delay_1(year) ==
    LET months == Trunc((235 * year) - 234, 19)
        parts  == 12084 + (13753 * months)
        day    == (months * 29) + Trunc(parts, 25920)
    IN  IF (3 * (day + 1)) % 7 < 3 THEN day + 1 ELSE day

delay_2(year) ==
    LET last    == delay_1(year - 1)
        present == delay_1(year)
        next    == delay_1(year + 1)
    IN  IF next - present = 356 THEN 2
        ELSE IF present - last = 382 THEN 1
        ELSE 0

\* hebrew.to_jd(year, 7, 1): no month lengths are added for 1 Tishri.
new_year_jd(year) == HEBREW_EPOCH + delay_1(year) + delay_2(year) + 1 + 1

year_days(year) == new_year_jd(year + 1) - new_year_jd(year)

month_days(year, month) ==
    IF month \in {2, 4, 6, 10, 13} THEN 29
    ELSE IF month = 12 /\ ~leap(year) THEN 29
    ELSE IF month = 8 /\ year_days(year) % 10 # 5 THEN 29
    ELSE IF month = 9 /\ year_days(year) % 10 = 3 THEN 29
    ELSE 30

\* sum of month_days(year, m) for m in range(a, b)
RECURSIVE sum_month_days(_, _, _)
sum_month_days(year, a, b) ==
    IF a >= b THEN 0
    ELSE month_days(year, a) + sum_month_days(year, a + 1, b)

hebrew_to_jd(year, month, day) ==
    HEBREW_EPOCH + delay_1(year) + delay_2(year) + day + 1
    + (IF month < 7
       THEN sum_month_days(year, 7, year_months(year) + 1)
            + sum_month_days(year, 1, month)
       ELSE sum_month_days(year, 7, month))

\* while jd >= to_jd(i, 7, 1): i += 1; year += 1      (year = i - 1 throughout)
RECURSIVE find_year(_, _)
find_year(jd, i) ==
    IF jd >= new_year_jd(i) THEN find_year(jd, i + 1) ELSE i - 1

\* while jd > to_jd(year, i, month_days(year, i)): i += 1; month += 1
RECURSIVE find_month(_, _, _)
find_month(jd, year, i) ==
    IF jd > hebrew_to_jd(year, i, month_days(year, i))
    THEN find_month(jd, year, i + 1)
    ELSE i

\* hebrew.from_jd: the Hebrew <<year, month, day>> of a Julian day.
hebrew_from_jd(jd) ==
    LET count == MulDivMod(jd - HEBREW_EPOCH, 98496, 35975351)[1]
        year  == find_year(jd, count)
        first == IF jd < hebrew_to_jd(year, 1, 1) THEN 7 ELSE 1
        month == find_month(jd, year, first)
        day   == (jd - hebrew_to_jd(year, month, 1)) + 1
    IN  <<year, month, day>>

(***************************************************************************)
(* gregorian_to_hebrew: one call frame per call                            *)
(***************************************************************************)

MsgNoHebrew == "This function requires the 'convertdate' package (missing 'hebrew' module). Install with: python -m pip install convertdate"

MsgNoJd == "This function requires the 'convertdate' package with a julianday helper (tried: julianday, daycount, jd). Install or upgrade convertdate: python -m pip install --upgrade convertdate"

\* Dotted module names are held as their sequence of components.
jd_candidates ==
    << <<"convertdate", "julianday">>,
       <<"convertdate", "daycount">>,
       <<"convertdate", "jd">>,
       <<"convertdate", "utils">> >>

HEBREW_MONTH_NAMES ==
    <<"Nisan", "Iyar", "Sivan", "Tamuz", "Av", "Elul",
      "Tishri", "Cheshvan", "Kislev", "Tevet", "Shevat",
      "Adar", "Adar II">>

HelperAttrs == {"from_gregorian", "to_gregorian"}

\* What importing `name` can yield: <<>> when the import raises, else the
\* module object with the helper attributes it happens to expose.
ImportOutcomes(name) ==
    {<<>>} \cup {<<[name |-> name, attrs |-> a]>> : a \in SUBSET HelperAttrs}

\* The test with `or` in place of `and`.
exposes_either_helper(module) ==
    "from_gregorian" \in module.attrs \/ "to_gregorian" \in module.attrs

\* hasattr(module, "from_gregorian") and hasattr(module, "to_gregorian")
exposes_helpers(module) ==
    "from_gregorian" \in module.attrs /\ "to_gregorian" \in module.attrs

\* cand.endswith("utils")
endswith_utils(cand) == cand[Len(cand)] = "utils"

\* The locals of a call before its first statement.  Four fields are history,
\* not locals: order (the module names whose import was attempted),
\* passedOver (a module exposing both helpers was imported and not taken),
\* nFromGregorian and nFromJd (how often lines 59 and 60 were executed).
NewFrame(year, month, day) ==
    [pc |-> "import_hebrew", year |-> year, month |-> month, day |-> day,
     i |-> 1, jd |-> <<>>,
     order |-> <<>>, passedOver |-> FALSE,
     j |-> <<>>, h |-> <<>>, names |-> <<>>,
     month_name |-> "", formatted |-> "",
     nFromGregorian |-> 0, nFromJd |-> 0,
     exc |-> "", msg |-> "", rec |-> <<>>]

IdleFrame == [NewFrame(0, 0, 0) EXCEPT !.pc = "idle"]

\* raise: the call ends in the exception, with no record.
Raise(f, exc, msg) == [f EXCEPT !.pc = "done", !.exc = exc, !.msg = msg]

\* End of one pass of the for loop over jd_candidates.
next_candidate(f) ==
    IF f.i + 1 > Len(jd_candidates)
    THEN [f EXCEPT !.i = f.i + 1, !.pc = "check_jd"]
    ELSE [f EXCEPT !.i = f.i + 1, !.pc = "for"]

\* lines 19-34: import convertdate.hebrew; jd = None
step_import_hebrew(f, ok) ==
    IF ok THEN [f EXCEPT !.pc = "for", !.i = 1, !.jd = <<>>]
    ELSE Raise(f, "ImportError", MsgNoHebrew)

\* lines 35-43, 51-52: one candidate of the loop; imp is what the import gave
step_try_candidate(f, imp) ==
    LET cand == jd_candidates[f.i]
        g    == [f EXCEPT !.order = Append(f.order, cand)]
    IN  IF imp = <<>> THEN next_candidate(g)
        ELSE IF exposes_helpers(imp[1])
             THEN [g EXCEPT !.jd = imp, !.pc = "check_jd"]
        ELSE IF endswith_utils(cand)
             THEN [g EXCEPT !.pc = "sub",
                            !.passedOver = f.passedOver
                                \/ HelperAttrs \subseteq imp[1].attrs]
        ELSE next_candidate([g EXCEPT !.passedOver = f.passedOver
                                \/ HelperAttrs \subseteq imp[1].attrs])

\* lines 44-50: the julianday submodule of a utils package
step_try_submodule(f, imp) ==
    LET sub == jd_candidates[f.i] \o <<"julianday">>
        g   == [f EXCEPT !.order = Append(f.order, sub)]
    IN  IF imp = <<>> THEN next_candidate(g)
        ELSE IF exposes_helpers(imp[1])
             THEN [g EXCEPT !.jd = imp, !.pc = "check_jd"]
        ELSE next_candidate([g EXCEPT !.passedOver = f.passedOver
                                \/ HelperAttrs \subseteq imp[1].attrs])

\* lines 54-56
step_check_jd(f) ==
    IF f.jd = <<>> THEN Raise(f, "ImportError", MsgNoJd)
    ELSE [f EXCEPT !.pc = "from_gregorian"]

\* Line 59 wrapped in a retry that clamps a day the helper rejects.
step_from_gregorian_clamped(f) ==
    LET r == from_gregorian(f.year, f.month, f.day)
        g == [f EXCEPT !.nFromGregorian = f.nFromGregorian + 1]
    IN  IF r = <<>> /\ f.day > 1
        THEN [g EXCEPT !.day = f.day - 1]
        ELSE IF r = <<>> THEN Raise(g, "ValueError", "")
        ELSE [g EXCEPT !.j = r, !.pc = "from_jd"]

\* line 59: j = jd.from_gregorian(year, month, day)
step_from_gregorian(f) ==
    LET r == from_gregorian(f.year, f.month, f.day)
        g == [f EXCEPT !.nFromGregorian = f.nFromGregorian + 1]
    IN  IF r = <<>>
        THEN Raise(g, "ValueError",
                   "Month " \o IntToStr(f.month) \o " doesn't have a day "
                       \o IntToStr(f.day))
        ELSE [g EXCEPT !.j = r, !.pc = "from_jd"]

\* line 60: h_year, h_month, h_day = hebrew.from_jd(j)
step_from_jd(f) ==
    [f EXCEPT !.h = hebrew_from_jd(f.j[1]), !.nFromJd = f.nFromJd + 1,
              !.pc = "names"]

\* lines 63-67: the month-name list is built afresh in every call
step_names(f) == [f EXCEPT !.names = HEBREW_MONTH_NAMES, !.pc = "lookup"]

\* Lines 69-72 with the list patched in place for leap years.
step_lookup_patching_table(f) ==
    LET h_month == f.h[2]
        names   == IF leap(f.h[1]) THEN [f.names EXCEPT ![12] = "Adar I"]
                   ELSE f.names
        name    == IF h_month = 13 THEN <<"Adar II">>
                   ELSE PyIndex(names, h_month - 1)
    IN  IF name = <<>> THEN Raise(f, "IndexError", "list index out of range")
        ELSE [f EXCEPT !.names = names, !.month_name = name[1], !.pc = "format"]

\* lines 69-72
step_lookup(f) ==
    LET h_month == f.h[2]
        name    == IF h_month = 13 THEN <<"Adar II">>
                   ELSE PyIndex(f.names, h_month - 1)
    IN  IF name = <<>> THEN Raise(f, "IndexError", "list index out of range")
        ELSE [f EXCEPT !.month_name = name[1], !.pc = "format"]

\* Line 74 with year and day in each other's place.
step_format_swapped(f) ==
    [f EXCEPT !.formatted =
                  IntToStr(f.h[1]) \o " " \o f.month_name \o " " \o IntToStr(f.h[3]),
              !.pc = "return"]

\* line 74: f"{int(h_day)} {month_name} {int(h_year)}"
step_format(f) ==
    [f EXCEPT !.formatted =
                  IntToStr(f.h[3]) \o " " \o f.month_name \o " " \o IntToStr(f.h[1]),
              !.pc = "return"]

\* lines 76-82
step_return(f) ==
    [f EXCEPT !.rec = <<[year |-> f.h[1], month |-> f.h[2], day |-> f.h[3],
                         month_name |-> f.month_name,
                         formatted |-> f.formatted]>>,
              !.pc = "done"]

\* lines 58-82 run from start to end: what a call yields once a helper module
\* has been found.
gregorian_to_hebrew(year, month, day) ==
    LET a == step_from_gregorian(
                 [NewFrame(year, month, day) EXCEPT !.pc = "from_gregorian"])
        b == step_lookup(step_names(step_from_jd(a)))
    IN  IF a.pc = "done" THEN a
        ELSE IF b.pc = "done" THEN b
        ELSE step_return(step_format(b))

VARIABLES
    fr,       \* call frames of gregorian_to_hebrew, by call
    pc,       \* where the program stands in _cli / interactive_input / run_gui
    mode,     \* args.mode
    argv,     \* the positional values argparse collected (0 to 3 integers)
    out,      \* lines printed on standard output
    err,      \* the exception that ended the program uncaught, "" if none
    ran,      \* the functions _cli has called, in order
    inp,      \* locals y_str, y, m, d of interactive_input / on_convert
    prompts,  \* the prompts input() has shown
    gui,      \* the window: clicks handled, error dialogs shown, result_var
    conv      \* conversions started for the request being served

prog == <<pc, mode, argv, out, err, ran, inp, prompts, gui, conv>>

vars == <<fr, pc, mode, argv, out, err, ran, inp, prompts, gui, conv>>

(***************************************************************************)
(* Steps of a call of gregorian_to_hebrew                                  *)
(***************************************************************************)

ImportHebrew(c) ==
    /\ fr[c].pc = "import_hebrew"
    /\ \E ok \in BOOLEAN : fr' = [fr EXCEPT ![c] = step_import_hebrew(fr[c], ok)]
    /\ UNCHANGED prog

TryCandidate(c) ==
    /\ fr[c].pc = "for"
    /\ \E imp \in ImportOutcomes(jd_candidates[fr[c].i]) :
           fr' = [fr EXCEPT ![c] = step_try_candidate(fr[c], imp)]
    /\ UNCHANGED prog

TrySubmodule(c) ==
    /\ fr[c].pc = "sub"
    /\ \E imp \in ImportOutcomes(jd_candidates[fr[c].i] \o <<"julianday">>) :
           fr' = [fr EXCEPT ![c] = step_try_submodule(fr[c], imp)]
    /\ UNCHANGED prog

CheckJd(c) ==
    /\ fr[c].pc = "check_jd"
    /\ fr' = [fr EXCEPT ![c] = step_check_jd(fr[c])]
    /\ UNCHANGED prog

FromGregorian(c) ==
    /\ fr[c].pc = "from_gregorian"
    /\ fr' = [fr EXCEPT ![c] = step_from_gregorian(fr[c])]
    /\ UNCHANGED prog

FromJd(c) ==
    /\ fr[c].pc = "from_jd"
    /\ fr' = [fr EXCEPT ![c] = step_from_jd(fr[c])]
    /\ UNCHANGED prog

Names(c) ==
    /\ fr[c].pc = "names"
    /\ fr' = [fr EXCEPT ![c] = step_names(fr[c])]
    /\ UNCHANGED prog

Lookup(c) ==
    /\ fr[c].pc = "lookup"
    /\ fr' = [fr EXCEPT ![c] = step_lookup(fr[c])]
    /\ UNCHANGED prog

Format(c) ==
    /\ fr[c].pc = "format"
    /\ fr' = [fr EXCEPT ![c] = step_format(fr[c])]
    /\ UNCHANGED prog

Return(c) ==
    /\ fr[c].pc = "return"
    /\ fr' = [fr EXCEPT ![c] = step_return(fr[c])]
    /\ UNCHANGED prog

(***************************************************************************)
(* _cli                                                                    *)
(***************************************************************************)

MsgGuiFailed == "GUI failed to start. Try interactive mode instead."

\* The two messages with a dash carry U+2014 in the source; it is written --.
MsgSwitching == "No date provided -- switching to interactive input mode."

MsgInstall == "Install with: python -m pip install convertdate"

MsgNoInput == "No input received. Exiting."

MsgInvalid == "Invalid input -- please enter integer values for year, month and day"

\* args.year / args.month / args.day: <<v>>, or <<>> for None.
arg(k) == IF Len(argv) >= k THEN <<argv[k]>> ELSE <<>>

\* Line 107 testing truthiness (`not args.year`) instead of `is None`.
date_missing_falsy ==
    \E k \in 1..3 : arg(k) = <<>> \/ arg(k) = <<0>>

\* line 107
date_missing == arg(1) = <<>> \/ arg(2) = <<>> \/ arg(3) = <<>>

\* The call gregorian_to_hebrew(y, m, d) made by the program.
Call(y, m, d) ==
    /\ fr' = [fr EXCEPT ![1] = NewFrame(y, m, d)]
    /\ conv' = conv + 1

\* What the try/except ImportError around the call prints (lines 112-119 and
\* 140-147): <<lines, uncaught exception>>.
report(f) ==
    IF f.exc = "ImportError" THEN <<<<f.msg, MsgInstall>>, "">>
    ELSE IF f.exc # "" THEN <<<<>>, f.exc>>
    ELSE <<<<f.rec[1].formatted>>, "">>

\* lines 96-98
CliInteractive ==
    /\ pc = "cli" /\ mode = "interactive"
    /\ ran' = Append(ran, "interactive_input")
    /\ pc' = "prompt_year"
    /\ UNCHANGED <<fr, mode, argv, out, err, inp, prompts, gui, conv>>

\* lines 99-101
CliGui ==
    /\ pc = "cli" /\ mode = "gui"
    /\ ran' = Append(ran, "run_gui")
    /\ pc' = "gui_start"
    /\ UNCHANGED <<fr, mode, argv, out, err, inp, prompts, gui, conv>>

\* lines 107-110
CliFallback ==
    /\ pc = "cli" /\ mode = "cli" /\ date_missing
    /\ out' = Append(out, MsgSwitching)
    /\ ran' = Append(ran, "interactive_input")
    /\ pc' = "prompt_year"
    /\ UNCHANGED <<fr, mode, argv, err, inp, prompts, gui, conv>>

\* lines 112-113
CliConvert ==
    /\ pc = "cli" /\ mode = "cli" /\ ~date_missing
    /\ Call(arg(1)[1], arg(2)[1], arg(3)[1])
    /\ ran' = Append(ran, "gregorian_to_hebrew")
    /\ pc' = "cli_wait"
    /\ UNCHANGED <<mode, argv, out, err, inp, prompts, gui>>

\* lines 114-119
CliAfterConvert ==
    /\ pc = "cli_wait" /\ fr[1].pc = "done"
    /\ out' = out \o report(fr[1])[1]
    /\ err' = report(fr[1])[2]
    /\ fr' = [fr EXCEPT ![1] = IdleFrame]
    /\ pc' = "exit"
    /\ UNCHANGED <<mode, argv, ran, inp, prompts, gui, conv>>

(***************************************************************************)
(* interactive_input                                                       *)
(***************************************************************************)

PromptYearText == "Enter Gregorian year (e.g. 2025): "

PromptMonthText == "Enter Gregorian month (1-12): "

PromptDayText == "Enter Gregorian day (1-31): "

\* What input() can give: a typed line, or end of input (EOFError).
Typed(t) == [eof |-> FALSE, text |-> t]

EndOfInput == [eof |-> TRUE, text |-> <<>>]

YearEntries ==
    {Typed(<<>>), Typed(<<" ">>), Typed(<<"y">>),
     Typed(<<"2", "0", "2", "5">>), Typed(<<" ", "2", "0", "2", "4">>),
     EndOfInput}

MonthEntries ==
    {Typed(<<>>), Typed(<<"1", "x">>), Typed(<<"1", "1">>), Typed(<<"2">>),
     Typed(<<"1", "3">>), EndOfInput}

DayEntries ==
    {Typed(<<>>), Typed(<<"-">>), Typed(<<"7">>), Typed(<<"1", "5", " ">>),
     Typed(<<"3", "0">>), EndOfInput}

\* lines 129-133 without the empty check: "" goes on to int() and fails there.
read_year_no_empty_check(e) ==
    LET y_str == strip(e.text) IN
    IF e.eof THEN [kind |-> "eof", y_str |-> <<>>, y |-> 0]
    ELSE IF PyInt(y_str) = <<>>
    THEN [kind |-> "invalid", y_str |-> <<y_str>>, y |-> 0]
    ELSE [kind |-> "ok", y_str |-> <<y_str>>, y |-> PyInt(y_str)[1]]

\* lines 129-133: y_str = input(...).strip(); if not y_str: ...; y = int(y_str)
read_year(e) ==
    LET y_str == strip(e.text) IN
    IF e.eof THEN [kind |-> "eof", y_str |-> <<>>, y |-> 0]
    ELSE IF y_str = <<>>
    THEN [kind |-> "empty", y_str |-> <<y_str>>, y |-> 0]
    ELSE IF PyInt(y_str) = <<>>
    THEN [kind |-> "invalid", y_str |-> <<y_str>>, y |-> 0]
    ELSE [kind |-> "ok", y_str |-> <<y_str>>, y |-> PyInt(y_str)[1]]

\* lines 128-133, 136-138
PromptYear ==
    /\ pc = "prompt_year"
    /\ prompts' = Append(prompts, PromptYearText)
    /\ \E e \in YearEntries :
          LET r == read_year(e) IN
          /\ inp' = [inp EXCEPT !.y_str = r.y_str, !.y = r.y]
          /\ pc' = IF r.kind = "ok" THEN "prompt_month" ELSE "exit"
          /\ err' = IF r.kind = "eof" THEN "EOFError" ELSE err
          /\ out' = IF r.kind = "empty" THEN Append(out, MsgNoInput)
                    ELSE IF r.kind = "invalid" THEN Append(out, MsgInvalid)
                    ELSE out
    /\ UNCHANGED <<fr, mode, argv, ran, gui, conv>>

\* lines 134, 136-138
PromptMonth ==
    /\ pc = "prompt_month"
    /\ prompts' = Append(prompts, PromptMonthText)
    /\ \E e \in MonthEntries :
          IF e.eof
          THEN /\ err' = "EOFError" /\ pc' = "exit" /\ UNCHANGED <<out, inp>>
          ELSE IF PyInt(strip(e.text)) = <<>>
          THEN /\ out' = Append(out, MsgInvalid)
               /\ pc' = "exit" /\ UNCHANGED <<err, inp>>
          ELSE /\ inp' = [inp EXCEPT !.m = PyInt(strip(e.text))[1]]
               /\ pc' = "prompt_day" /\ UNCHANGED <<out, err>>
    /\ UNCHANGED <<fr, mode, argv, ran, gui, conv>>

\* lines 135, 136-138
PromptDay ==
    /\ pc = "prompt_day"
    /\ prompts' = Append(prompts, PromptDayText)
    /\ \E e \in DayEntries :
          IF e.eof
          THEN /\ err' = "EOFError" /\ pc' = "exit" /\ UNCHANGED <<out, inp>>
          ELSE IF PyInt(strip(e.text)) = <<>>
          THEN /\ out' = Append(out, MsgInvalid)
               /\ pc' = "exit" /\ UNCHANGED <<err, inp>>
          ELSE /\ inp' = [inp EXCEPT !.d = PyInt(strip(e.text))[1]]
               /\ pc' = "interactive_call" /\ UNCHANGED <<out, err>>
    /\ UNCHANGED <<fr, mode, argv, ran, gui, conv>>

\* lines 140-141
InteractiveConvert ==
    /\ pc = "interactive_call"
    /\ Call(inp.y, inp.m, inp.d)
    /\ pc' = "interactive_wait"
    /\ UNCHANGED <<mode, argv, out, err, ran, inp, prompts, gui>>

\* lines 142-147
InteractiveAfterConvert ==
    /\ pc = "interactive_wait" /\ fr[1].pc = "done"
    /\ out' = out \o report(fr[1])[1]
    /\ err' = report(fr[1])[2]
    /\ fr' = [fr EXCEPT ![1] = IdleFrame]
    /\ pc' = "exit"
    /\ UNCHANGED <<mode, argv, ran, inp, prompts, gui, conv>>

(***************************************************************************)
(* run_gui                                                                 *)
(***************************************************************************)

MaxClicks == 1

\* The three entry fields as the user left them when pressing Convert; the
\* window opens with 2025 / 11 / 7.
GuiEntries ==
    { << <<"2", "0", "2", "5">>, <<"1", "1">>, <<"7">> >>,
      << <<"2", "0", "2", "4">>, <<"3">>, <<"1", "5">> >>,
      << <<"2", "0", "2", "5">>, <<"2">>, <<"3", "0">> >>,
      << <<"2", "0", "2", "5">>, <<>>, <<"7">> >>,
      << <<"x">>, <<"1", "1">>, <<"7">> >> }

\* lines 151-155, 177-198: tkinter is imported and the window built; either
\* can raise, and _cli (lines 102-104) then prints its message.
GuiStart ==
    /\ pc = "gui_start"
    /\ \E ok \in BOOLEAN :
          IF ok THEN pc' = "mainloop" /\ UNCHANGED out
          ELSE pc' = "exit" /\ out' = Append(out, MsgGuiFailed)
    /\ UNCHANGED <<fr, mode, argv, err, ran, inp, prompts, gui, conv>>

\* lines 157-167: the Convert button
OnConvert ==
    /\ pc = "mainloop" /\ gui.clicks < MaxClicks
    /\ \E e \in GuiEntries :
          LET y == PyInt(e[1])
              m == PyInt(e[2])
              d == PyInt(e[3])
          IN  IF y = <<>> \/ m = <<>> \/ d = <<>>
              THEN /\ gui' = [gui EXCEPT
                         !.clicks = gui.clicks + 1,
                         !.dialogs = Append(gui.dialogs,
                             <<"Input error",
                               "Please enter valid integers for year, month and day">>)]
                   /\ conv' = 0
                   /\ UNCHANGED <<fr, pc, inp>>
              ELSE /\ gui' = [gui EXCEPT !.clicks = gui.clicks + 1]
                   /\ inp' = [inp EXCEPT !.y = y[1], !.m = m[1], !.d = d[1]]
                   /\ fr' = [fr EXCEPT ![1] = NewFrame(y[1], m[1], d[1])]
                   /\ conv' = 1
                   /\ pc' = "gui_wait"
    /\ UNCHANGED <<mode, argv, out, err, ran, prompts>>

\* lines 168-175
OnConvertAfter ==
    /\ pc = "gui_wait" /\ fr[1].pc = "done"
    /\ gui' = IF fr[1].exc = "ImportError"
              THEN [gui EXCEPT !.dialogs = Append(gui.dialogs,
                       <<"Missing dependency",
                         "Please install 'convertdate' (pip install convertdate)">>)]
              ELSE IF fr[1].exc # ""
              THEN [gui EXCEPT !.dialogs = Append(gui.dialogs,
                       <<"Conversion error", fr[1].msg>>)]
              ELSE [gui EXCEPT !.result_var = fr[1].rec[1].formatted]
    /\ fr' = [fr EXCEPT ![1] = IdleFrame]
    /\ pc' = "mainloop"
    /\ UNCHANGED <<mode, argv, out, err, ran, inp, prompts, conv>>

\* line 200: the window is closed, mainloop returns and so does _cli
GuiClose ==
    /\ pc = "mainloop"
    /\ pc' = "exit"
    /\ UNCHANGED <<fr, mode, argv, out, err, ran, inp, prompts, gui, conv>>

(***************************************************************************)
(* The program: one run of _cli                                            *)
(***************************************************************************)

Modes == {"cli", "interactive", "gui"}

Argvs ==
    {<<>>, <<2025>>, <<2025, 11>>, <<0, 0>>,
     <<2025, 11, 7>>, <<2024, 2, 15>>, <<2024, 3, 15>>, <<2025, 1, 1>>,
     <<2025, 2, 30>>, <<2025, 13, 5>>, <<0, 1, 1>>, <<2025, 0, 0>>}

InitProg ==
    /\ out = <<>> /\ err = "" /\ ran = <<>>
    /\ inp = [y_str |-> <<>>, y |-> 0, m |-> 0, d |-> 0]
    /\ prompts = <<>>
    /\ gui = [clicks |-> 0, dialogs |-> <<>>, result_var |-> ""]
    /\ conv = 0

\* The state once parse_args has returned (line 95).
Init ==
    /\ fr = [c \in {1} |-> IdleFrame]
    /\ pc = "cli"
    /\ mode \in Modes
    /\ argv \in Argvs
    /\ InitProg

\* A step of some call of gregorian_to_hebrew.
G2H ==
    \/ \E c \in DOMAIN fr : ImportHebrew(c)
    \/ \E c \in DOMAIN fr : TryCandidate(c)
    \/ \E c \in DOMAIN fr : TrySubmodule(c)
    \/ \E c \in DOMAIN fr : CheckJd(c)
    \/ \E c \in DOMAIN fr : FromGregorian(c)
    \/ \E c \in DOMAIN fr : FromJd(c)
    \/ \E c \in DOMAIN fr : Names(c)
    \/ \E c \in DOMAIN fr : Lookup(c)
    \/ \E c \in DOMAIN fr : Format(c)
    \/ \E c \in DOMAIN fr : Return(c)

Next ==
    \/ CliInteractive \/ CliGui \/ CliFallback \/ CliConvert \/ CliAfterConvert
    \/ PromptYear \/ PromptMonth \/ PromptDay
    \/ InteractiveConvert \/ InteractiveAfterConvert
    \/ GuiStart \/ OnConvert \/ OnConvertAfter \/ GuiClose
    \/ G2H

Spec == Init /\ [][Next]_vars

(***************************************************************************)
(* Calls made side by side, as by threads of a program using the function  *)
(***************************************************************************)

Threads == {1, 2}

ConcDates == {<<2025, 11, 7>>, <<2024, 2, 15>>}

InitConc ==
    /\ fr \in [Threads -> {NewFrame(d[1], d[2], d[3]) : d \in ConcDates}]
    /\ pc = "library"
    /\ mode = "cli"
    /\ argv = <<>>
    /\ InitProg

NextConc == G2H

SpecConc == InitConc /\ [][NextConc]_vars

(***************************************************************************)
(* Lines 62-82 as a function of the Hebrew triple alone                    *)
(***************************************************************************)

MonthSlack == 2

HebrewYears == {5784, 5785}

HebrewMonths == (0 - MonthSlack - 12)..(13 + MonthSlack)

HebrewDays == {1, 30}

InitNames ==
    /\ fr \in [{1} -> {[NewFrame(0, 0, 0) EXCEPT !.pc = "names", !.h = <<y, m, d>>] :
                          y \in HebrewYears, m \in HebrewMonths, d \in HebrewDays}]
    /\ pc = "library"
    /\ mode = "cli"
    /\ argv = <<>>
    /\ InitProg

NextNames ==
    \/ \E c \in DOMAIN fr : Names(c)
    \/ \E c \in DOMAIN fr : Lookup(c)
    \/ \E c \in DOMAIN fr : Format(c)
    \/ \E c \in DOMAIN fr : Return(c)

SpecNames == InitNames /\ [][NextNames]_vars

(***************************************************************************)
(* Properties                                                              *)
(***************************************************************************)

\* The calls that have returned a record, and the record of each.
Returned == {c \in DOMAIN fr : fr[c].rec # <<>>}

RecordOf(c) == fr[c].rec[1]

\* The month names as the specification's name_of lists them.
ClaimedMonthNames ==
    <<"Nisan", "Iyar", "Sivan", "Tamuz", "Av", "Elul",
      "Tishri", "Cheshvan", "Kislev", "Tevet", "Shevat">>

name_of(month_index, is_leap_year) ==
    IF month_index = 13 THEN "Adar II"
    ELSE IF month_index = 12 THEN (IF is_leap_year THEN "Adar I" ELSE "Adar")
    ELSE ClaimedMonthNames[month_index]

\* C1: every record the conversion returns names its month by the fixed
\* lookup: 1 Nisan ... 11 Shevat, 12 "Adar I" in a leap year and "Adar" in a
\* common year, 13 "Adar II".
C1_MonthNameLookup ==
    \A c \in Returned :
        RecordOf(c).month \in 1..13
        /\ RecordOf(c).month_name
               = name_of(RecordOf(c).month, leap(RecordOf(c).year))

\* A Gregorian date as section 4.1 of the specification defines validity.
ValidGregorian(year, month, day) ==
    /\ month \in 1..12
    /\ day >= 1
    /\ day <= (IF month = 2 THEN (IF isleap(year) THEN 29 ELSE 28)
               ELSE IF month \in {4, 6, 9, 11} THEN 30 ELSE 31)

\* C2: a call whose Gregorian month is outside 1..12, or whose day is out of
\* range for the month and year, never returns a record.
C2_InvalidDateRejected ==
    \A c \in Returned : ValidGregorian(fr[c].year, fr[c].month, fr[c].day)

\* C3: for a Hebrew month index outside 1..13, or 13 in a common year, no
\* month name is produced and no record is returned.
InvalidHebrewMonth(h) == h[2] \notin 1..13 \/ (h[2] = 13 /\ ~leap(h[1]))

C5_DocstringExample ==
    \A c \in Returned :
        (fr[c].year = 2025 /\ fr[c].month = 11 /\ fr[c].day = 7)
            => RecordOf(c) = [year |-> 5786, month |-> 8, day |-> 1,
                              month_name |-> "Cheshvan",
                              formatted |-> "1 Cheshvan 5786"]

\* Witness of the conversion returning a record with a two-digit day.
C4_Witness ==
    \E c \in Returned : RecordOf(c).formatted = "16 Cheshvan 5786"

\* C4: every returned record has exactly the keys year, month, day,
\* month_name and formatted; year, month and day are the integers of the
\* converted Hebrew triple; formatted is "{day} {month_name} {year}" built
\* from the record's own values.
C4_RecordShape ==
    \A c \in Returned :
        LET r == RecordOf(c) IN
        /\ DOMAIN r = {"year", "month", "day", "month_name", "formatted"}
        /\ r.year \in Int /\ r.month \in Int /\ r.day \in Int
        /\ <<r.year, r.month, r.day>> = fr[c].h
        /\ fr[c].h = hebrew_from_jd(fr[c].j[1])
        /\ r.formatted
               = IntToStr(r.day) \o " " \o r.month_name \o " " \o IntToStr(r.year)

C6_Calls ==
    /\ conv <= 1
    /\ \A c \in DOMAIN fr :
           /\ fr[c].nFromGregorian <= 1
           /\ fr[c].nFromJd <= 1
           /\ fr[c].exc # "" => (fr[c].pc = "done" /\ fr[c].rec = <<>>)
           /\ (fr[c].nFromGregorian = 1 /\ fr[c].j = <<>>)
                  => (fr[c].pc = "done" /\ fr[c].exc = "ValueError")

\* What each caller does with a call that ended in an error.
C6_Handled ==
    (fr[1].pc = "done" /\ fr[1].exc # "" /\ fr'[1] # fr[1]) =>
        /\ conv' = conv
        /\ fr'[1].pc = "idle"
        /\ IF pc = "gui_wait"
           THEN /\ Len(gui'.dialogs) = Len(gui.dialogs) + 1
                /\ gui'.result_var = gui.result_var
                /\ fr[1].exc # "ImportError" =>
                       gui'.dialogs[Len(gui'.dialogs)]
                           = <<"Conversion error", fr[1].msg>>
           ELSE IF fr[1].exc = "ImportError"
                THEN out' = out \o <<fr[1].msg, MsgInstall>> /\ err' = ""
                ELSE out' = out /\ err' = fr[1].exc

C7_SameAsAlone ==
    \A c \in DOMAIN fr :
        /\ fr[c].names \in {<<>>, HEBREW_MONTH_NAMES}
        /\ (fr[c].pc = "done" /\ fr[c].exc # "ImportError") =>
               LET alone == gregorian_to_hebrew(fr[c].year, fr[c].month, fr[c].day)
               IN  fr[c].rec = alone.rec /\ fr[c].exc = alone.exc
        /\ \A d \in Returned :
               (c \in Returned
                    /\ <<fr[c].year, fr[c].month, fr[c].day>>
                           = <<fr[d].year, fr[d].month, fr[d].day>>)
                   => RecordOf(c) = RecordOf(d)

C7_Isolated ==
    \A c \in DOMAIN fr :
        /\ fr'[c] # fr[c] => \A d \in DOMAIN fr \ {c} : fr'[d] = fr[d]
        /\ fr[c].names # <<>> => fr'[c].names = fr[c].names
        /\ <<fr'[c].year, fr'[c].month, fr'[c].day>>
               = <<fr[c].year, fr[c].month, fr[c].day>>

ClaimedOrder ==
    << <<"convertdate", "julianday">>,
       <<"convertdate", "daycount">>,
       <<"convertdate", "jd">>,
       <<"convertdate", "utils">>,
       <<"convertdate", "utils", "julianday">> >>

IsPrefix(s, t) == Len(s) <= Len(t) /\ s = SubSeq(t, 1, Len(s))

\* Witness: the search went past four candidates, the last helper tried was
\* used and the conversion returned.
C8_Witness ==
    \E c \in Returned :
        fr[c].jd[1].name = <<"convertdate", "utils", "julianday">>

\* C8: the helper modules are tried in the fixed order; one that fails to
\* import or lacks from_gregorian or to_gregorian is skipped and the search
\* goes on; the first one exposing both is used; a missing hebrew module or
\* an exhausted search raises ImportError before any conversion step.
C8_HelperSelection ==
    \A c \in DOMAIN fr :
        LET f == fr[c] IN
        /\ IsPrefix(f.order, ClaimedOrder)
        /\ ~f.passedOver
        /\ f.jd # <<>> =>
               /\ f.order # <<>>
               /\ f.jd[1].name = f.order[Len(f.order)]
               /\ HelperAttrs \subseteq f.jd[1].attrs
        /\ f.exc = "ImportError" =>
               /\ f.nFromGregorian = 0 /\ f.nFromJd = 0
               /\ f.j = <<>> /\ f.h = <<>> /\ f.jd = <<>>
               /\ f.msg = MsgNoHebrew => f.order = <<>>
               /\ f.msg = MsgNoJd => Len(f.order) >= Len(jd_candidates)
        /\ (f.pc = "done" /\ f.jd = <<>>) => f.exc = "ImportError"
        /\ (f.nFromGregorian > 0 \/ f.pc = "from_gregorian") => f.jd # <<>>

\* The one function _cli is to call, as stated.
ExpectedPath ==
    IF mode = "interactive" THEN "interactive_input"
    ELSE IF mode = "gui" THEN "run_gui"
    ELSE IF Len(argv) = 3 THEN "gregorian_to_hebrew"
    ELSE "interactive_input"

Printed(line) == \E k \in 1..Len(out) : out[k] = line

\* Witness: a command line holding a 0 was converted directly.
C9_Witness ==
    /\ pc = "exit" /\ ran = <<"gregorian_to_hebrew">>
    /\ \E k \in 1..3 : argv[k] = 0

\* C9: one path runs per invocation, chosen by the mode and, in mode cli, by
\* whether all three values are present (0 counts as present); the direct
\* conversion uses the command-line values, the other two paths ignore them;
\* a GUI start-up failure prints its message and nothing else happens.
C9_Dispatch ==
    /\ Len(ran) <= 1
    /\ pc # "cli" => Len(ran) = 1
    /\ ran # <<>> => ran[1] = ExpectedPath
    /\ (ran = <<"gregorian_to_hebrew">>) =>
           /\ prompts = <<>> /\ gui.clicks = 0 /\ ~Printed(MsgSwitching)
           /\ fr[1].pc # "idle" =>
                  <<fr[1].year, fr[1].month, fr[1].day>> = argv
    /\ (ran = <<"interactive_input">>) =>
           /\ gui.clicks = 0
           /\ Printed(MsgSwitching) <=> mode = "cli"
           /\ fr[1].pc # "idle" =>
                  <<fr[1].year, fr[1].month, fr[1].day>> = <<inp.y, inp.m, inp.d>>
    /\ (ran = <<"run_gui">>) => prompts = <<>>
    /\ Printed(MsgGuiFailed) =>
           /\ mode = "gui" /\ pc = "exit"
           /\ out = <<MsgGuiFailed>>
           /\ prompts = <<>> /\ conv = 0 /\ gui.clicks = 0
           /\ fr[1].pc = "idle"

\* What interactive_input itself has printed.
Reported ==
    IF out # <<>> /\ out[1] = MsgSwitching THEN Tail(out) ELSE out

InInteractive == ran = <<"interactive_input">>

C10_Prompts ==
    InInteractive =>
        /\ IsPrefix(prompts, <<PromptYearText, PromptMonthText, PromptDayText>>)
        /\ conv <= 1
        /\ (conv = 1 \/ pc = "interactive_call") =>
               (Len(prompts) = 3 /\ err # "EOFError" /\ inp.y_str # <<>>
                    /\ PyInt(inp.y_str[1]) = <<inp.y>>)
        /\ fr[1].pc # "idle" =>
               <<fr[1].year, fr[1].month, fr[1].day>> = <<inp.y, inp.m, inp.d>>
        /\ inp.y_str = << <<>> >> =>
               (pc = "exit" /\ Reported = <<MsgNoInput>>
                    /\ prompts = <<PromptYearText>>)
        /\ Printed(MsgNoInput) => (prompts = <<PromptYearText>> /\ conv = 0)
        /\ Printed(MsgInvalid) => (pc = "exit" /\ conv = 0)
        /\ (inp.y_str # <<>> /\ PyInt(inp.y_str[1]) = <<>> /\ inp.y_str[1] # <<>>)
               => (pc = "exit" /\ Reported = <<MsgInvalid>>)

OneOutcome ==
    \/ Reported = <<MsgNoInput>>
    \/ Reported = <<MsgInvalid>>
    \/ /\ conv = 1 /\ Len(Reported) = 2
       /\ Reported[1] \in {MsgNoHebrew, MsgNoJd} /\ Reported[2] = MsgInstall
    \/ /\ conv = 1 /\ Len(Reported) = 1
       /\ Reported[1] \notin {MsgNoInput, MsgInvalid, MsgNoHebrew, MsgNoJd, MsgInstall}

\* C10 as stated: interactive_input converts only after three integers were
\* read; an empty year ends it with the no-input message before the other
\* prompts, a non-integer entry with the invalid-input message, neither
\* converting; and every path reports exactly one outcome unless the
\* conversion raised an error other than ImportError.
C10_AsStated ==
    /\ C10_Prompts
    /\ (InInteractive /\ pc = "exit" /\ ~(conv = 1 /\ err # "")) => OneOutcome

\* Witness: three integers were read, the conversion ran, and its one
\* outcome was printed.
C10_Witness ==
    /\ InInteractive /\ pc = "exit" /\ conv = 1 /\ err = ""
    /\ Len(Reported) = 1

\* C10 amended: as stated, except that a path on which a prompt meets end of
\* input reports nothing: EOFError leaves interactive_input uncaught, like an
\* error of the conversion other than ImportError.
C10_OneOutcomeUnlessError ==
    /\ C10_Prompts
    /\ (InInteractive /\ pc = "exit" /\ err = "") => OneOutcome
    /\ (InInteractive /\ err = "EOFError") =>
           (pc = "exit" /\ conv = 0 /\ Reported = <<>>)
====
